---- MODULE Spec2Model ----
(***************************************************************************)
(* Layout engine of the GameCube ISO assistant: Game::rom_layout,          *)
(* ROMLayout::find_offset, Game::extract, Game::extract_section_with_name, *)
(* Game::rebuild_systemdata, Game::rebuild, make_sections_btree and        *)
(* write_zeros (src/src/game.rs), LayoutSection (layout_section.rs).       *)
(*                                                                         *)
(* Offsets and sizes are scaled: one unit stands for a block of the image. *)
(* The scaled sizes are the bounds of the model.                           *)
(*                                                                         *)
(* File-system calls fail where the modelled file system makes them fail   *)
(* (create_dir on a path that exists, File::open on a missing file);       *)
(* FST::rebuild and Header::rebuild, which live outside these sources, may *)
(* also fail at will. Writes to an open file or to rebuild's output do not *)
(* fail. An overflowing u64/usize subtraction panics or wraps, as the      *)
(* build profile (overflow_checks) decides.                                *)
(***************************************************************************)
EXTENDS Integers, Sequences, FiniteSets, TLC

\* ---------------------------------------------------------------- bounds
\* game.rs:18 (0x57058000), scaled.
ROM_SIZE == 8
\* header.rs GAME_HEADER_SIZE (0x2440), scaled.
GAME_HEADER_SIZE == 2
\* apploader.rs APPLOADER_OFFSET (0x2440), scaled.
APPLOADER_OFFSET == 2
\* lib.rs WRITE_CHUNK_SIZE, scaled.
WRITE_CHUNK_SIZE == 2
\* 2^64, the modulus of u64 and (64-bit) usize arithmetic, scaled.
U64_MOD == 16
\* the longest ordinary file of an image
MaxFileLen == 1
\* the most entries of an FST, the root directory included
MaxEntries == 3
\* the calls of write_zeros that run at the same time
NThreads == 2

\* ------------------------------------------------------------- utilities
None == [kind |-> "None"]

Min(a, b) == IF a < b THEN a ELSE b

Range(s) == {s[i] : i \in DOMAIN s}

RECURSIVE SumSeq(_)
SumSeq(s) == IF s = <<>> THEN 0 ELSE Head(s) + SumSeq(Tail(s))

MinOf(S) == CHOOSE x \in S : \A y \in S : x <= y

\* The keys of a BTreeMap in iteration (ascending) order.
RECURSIVE SortedKeys(_)
SortedKeys(S) ==
    IF S = {} THEN <<>> ELSE <<MinOf(S)>> \o SortedKeys(S \ {MinOf(S)})

\* BTreeMap::insert: a later insert under an equal key replaces the value.
BTreeInsert(m, k, v) ==
    [x \in (DOMAIN m) \cup {k} |-> IF x = k THEN v ELSE m[x]]

EmptyMap == [x \in {} |-> ""]

\* Path::join for relative paths ("" joined with a name is the name).
PathJoin(prefix, name) ==
    IF prefix = "" THEN name ELSE prefix \o "/" \o name

\* ------------------------------------------------------ decoded structures
SYSTEMDATA == "&&systemdata"
HEADER_PATH == PathJoin(SYSTEMDATA, "ISO.hdr")
FST_PATH == PathJoin(SYSTEMDATA, "Game.toc")
APPLOADER_PATH == PathJoin(SYSTEMDATA, "Apploader.ldr")
DOL_PATH == PathJoin(SYSTEMDATA, "Start.dol")
SystemPaths == {HEADER_PATH, FST_PATH, APPLOADER_PATH, DOL_PATH}

\* The geometry of the modelled images: header, apploader, executable and
\* FST follow one another; ordinary files are placed anywhere from the FST
\* on, or at offset 0 (where images keep their empty files).
DolOffset == APPLOADER_OFFSET + 1
SegmentsStart == DolOffset + 1
FstOffset == SegmentsStart + 1
FileOffsets == {0} \cup (FstOffset .. (ROM_SIZE - 1))

EntryName(i) == "e" \o ToString(i)

FileEntry(i, off, len) ==
    [is_dir |-> FALSE, name |-> EntryName(i), file_offset |-> off,
     length |-> len, next_index |-> 0]

DirEntry(i, next) ==
    [is_dir |-> TRUE, name |-> EntryName(i), file_offset |-> 0,
     length |-> 0, next_index |-> next]

\* Entry i of an FST of n entries: a file, or a directory whose contents
\* are the entries i+1 .. next_index (next_index is the 0-based index of
\* the first entry after the directory).
EntryChoices(i, n) ==
    {FileEntry(i, off, len) :
        <<off, len>> \in {p \in FileOffsets \X (0 .. MaxFileLen) :
                             p[1] + p[2] <= ROM_SIZE}}
    \cup {DirEntry(i, next) : next \in i .. n}

\* Directories nest: a directory inside another ends no later than it.
WellNested(e) ==
    \A i \in DOMAIN e : \A j \in DOMAIN e :
        (e[i].is_dir /\ e[j].is_dir /\ i < j /\ j <= e[i].next_index)
            => e[j].next_index <= e[i].next_index

\* The entry arrays FST::new decodes: entry 0 (here 1) is the root
\* directory and spans the whole array.
RECURSIVE EntryArrays(_, _)
EntryArrays(i, n) ==
    IF i > n THEN {<<>>}
    ELSE {<<c>> \o rest :
            c \in (IF i = 1 THEN {[DirEntry(1, n) EXCEPT !.name = ""]}
                            ELSE EntryChoices(i, n)),
            rest \in EntryArrays(i + 1, n)}

FSTs ==
    {[offset |-> FstOffset, size |-> 1, entries |-> e] :
        e \in {a \in UNION {EntryArrays(1, n) : n \in 1 .. MaxEntries} :
                  WellNested(a)}}

\* Executable headers: one text and one data segment slot; size 0 marks
\* an unused segment.
DOLs ==
    {[offset |-> DolOffset,
      dol_size |-> 1 + sz[1] + sz[2],
      text_segments |-> <<[kind |-> "text", num |-> 0,
                           start |-> SegmentsStart, size |-> sz[1]]>>,
      data_segments |-> <<[kind |-> "data", num |-> 0,
                           start |-> SegmentsStart + sz[1], size |-> sz[2]]>>] :
        sz \in {p \in (0 .. 1) \X (0 .. 1) : p[1] + p[2] <= 1}}

\* Game::open: the four decoded structures of an image.
Games ==
    {[header |-> [fst_offset |-> f.offset, dol_offset |-> d.offset],
      apploader |-> [total_size |-> 1],
      dol |-> d,
      fst |-> f] : d \in DOLs, f \in FSTs}

\* ------------------------------------------------- LayoutSection (regions)
Section(kind, idx, start, len) ==
    [kind |-> kind, idx |-> idx, start |-> start, len |-> len]

HeaderSection(g) == Section("Header", 0, 0, GAME_HEADER_SIZE)
ApploaderSection(g) ==
    Section("Apploader", 0, APPLOADER_OFFSET, g.apploader.total_size)
DOLHeaderSection(g) == Section("DOLHeader", 0, g.dol.offset, 1)
FSTSection(g) == Section("FST", 0, g.fst.offset, g.fst.size)
SegmentSection(s) ==
    Section("DOLSegment", IF s.kind = "text" THEN s.num ELSE 100 + s.num,
            s.start, s.size)
FileSection(g, i) ==
    Section("File", i, g.fst.entries[i].file_offset, g.fst.entries[i].length)

\* DOLHeader::iter_segments: the text segments, then the data segments.
iter_segments(dol) == dol.text_segments \o dol.data_segments

\* LayoutSection::end: start + len - 1 in u64. For start = len = 0 the
\* subtraction overflows: a panic with overflow checks, 2^64 - 1 without.
EndOverflows(s) == s.start + s.len = 0
End(s) == (s.start + s.len - 1) % U64_MOD

\* LayoutSection::compare_offset
compare_offset(s, offset, checks) ==
    IF EndOverflows(s) /\ checks THEN "Panic"
    ELSE IF End(s) < offset THEN "Less"
    ELSE IF s.start > offset THEN "Greater"
    ELSE "Equal"

\* ------------------------------------------------------ Game::rom_layout
\* rom_layout without the `if e.size != 0` test on the segments.
rom_layout_pushed_all_segments(g) ==
    <<HeaderSection(g), ApploaderSection(g), DOLHeaderSection(g)>>
    \o [i \in 1 .. Len(iter_segments(g.dol))
          |-> SegmentSection(iter_segments(g.dol)[i])]
    \o <<FSTSection(g)>>
    \o [i \in 1 .. Len(SelectSeq([j \in DOMAIN g.fst.entries |-> j],
                                 LAMBDA j : ~g.fst.entries[j].is_dir))
          |-> FileSection(g,
                SelectSeq([j \in DOMAIN g.fst.entries |-> j],
                          LAMBDA j : ~g.fst.entries[j].is_dir)[i])]

\* The sections pushed, in push order, before the sort.
rom_layout_pushed(g) ==
    <<HeaderSection(g), ApploaderSection(g), DOLHeaderSection(g)>>
    \o [i \in 1 .. Len(SelectSeq(iter_segments(g.dol), LAMBDA e : e.size # 0))
          |-> SegmentSection(
                SelectSeq(iter_segments(g.dol), LAMBDA e : e.size # 0)[i])]
    \o <<FSTSection(g)>>
    \o [i \in 1 .. Len(SelectSeq([j \in DOMAIN g.fst.entries |-> j],
                                 LAMBDA j : ~g.fst.entries[j].is_dir))
          |-> FileSection(g,
                SelectSeq([j \in DOMAIN g.fst.entries |-> j],
                          LAMBDA j : ~g.fst.entries[j].is_dir)[i])]

\* Ord for LayoutSection compares start alone; sort_unstable may leave
\* sections of equal start in any order.
RECURSIVE SortOutcomes(_)
SortOutcomes(S) ==
    IF S = {} THEN {<<>>}
    ELSE UNION {{<<x>> \o t : t \in SortOutcomes(S \ {x})} :
                  x \in {y \in S : \A z \in S : y.start <= z.start}}

rom_layout(g) == SortOutcomes(Range(rom_layout_pushed(g)))

\* --------------------------------------------------- ROMLayout::find_offset
RECURSIVE find_offset(_, _, _)
find_offset(l, offset, checks) ==
    IF l = <<>> THEN None
    ELSE LET c == compare_offset(Head(l), offset, checks) IN
         IF c = "Panic" THEN [kind |-> "Panic"]
         ELSE IF c = "Less" THEN None
         ELSE IF c = "Equal" THEN Head(l)
         ELSE find_offset(Tail(l), offset, checks)


\* ------------------------------------------------------------ the image
Covers(start, len, p) == start <= p /\ p < start + len

\* The byte ranges an image's structures occupy: the header, the
\* apploader, the executable file, the FST and every file of the FST.
Occupied(g, p) ==
    \/ Covers(0, GAME_HEADER_SIZE, p)
    \/ Covers(APPLOADER_OFFSET, g.apploader.total_size, p)
    \/ Covers(g.dol.offset, g.dol.dol_size, p)
    \/ Covers(g.fst.offset, g.fst.size, p)
    \/ \E i \in DOMAIN g.fst.entries :
          /\ ~g.fst.entries[i].is_dir
          /\ Covers(g.fst.entries[i].file_offset, g.fst.entries[i].length, p)

\* The image a Game was opened from: ROM_SIZE bytes; every occupied byte
\* carries a value of its own (never 0), every other byte is 0.
Image(g) == [p \in 0 .. (ROM_SIZE - 1) |-> IF Occupied(g, p) THEN p + 1 ELSE 0]

\* extract_section after a seek to start: len bytes of the image.
Slice(g, start, len) == [i \in 1 .. len |-> Image(g)[start + i - 1]]

Zeros(n) == [i \in 1 .. n |-> 0]

\* ----------------------------------------------------- FST tree traversal
\* DirectoryEntry::iter_contents: the direct children of directory d, in
\* stored order, stepping over the subtree of each sub-directory.
RECURSIVE ContentsFrom(_, _, _)
ContentsFrom(entries, j, last) ==
    IF j > last THEN <<>>
    ELSE <<j>> \o ContentsFrom(entries,
                               IF entries[j].is_dir
                                   THEN entries[j].next_index + 1 ELSE j + 1,
                               last)

iter_contents(entries, d) == ContentsFrom(entries, d + 1, entries[d].next_index)

\* The full path of every entry below directory d: <<index, path>> pairs
\* in stored order.
RECURSIVE WalkDir(_, _, _), WalkEach(_, _, _)
WalkDir(entries, d, prefix) == WalkEach(entries, iter_contents(entries, d), prefix)
WalkEach(entries, kids, prefix) ==
    IF kids = <<>> THEN <<>>
    ELSE LET j == Head(kids)
             path == PathJoin(prefix, entries[j].name)
         IN  <<<<j, path>>>>
             \o (IF entries[j].is_dir THEN WalkDir(entries, j, path) ELSE <<>>)
             \o WalkEach(entries, Tail(kids), prefix)

FullPaths(fst) == WalkDir(fst.entries, 1, "")

FileIndices(fst) == {i \in DOMAIN fst.entries : ~fst.entries[i].is_dir}

\* ------------------------------------------------------ make_files_btree
RECURSIVE fill_files_btree(_, _, _, _), FillEach(_, _, _, _)
fill_files_btree(files, d, prefix, entries) ==
    FillEach(files, iter_contents(entries, d), prefix, entries)
FillEach(files, kids, prefix, entries) ==
    IF kids = <<>> THEN files
    ELSE LET j == Head(kids)
             path == PathJoin(prefix, entries[j].name)
         IN  FillEach(IF entries[j].is_dir
                          THEN fill_files_btree(files, j, path, entries)
                          ELSE BTreeInsert(files, entries[j].file_offset, path),
                      Tail(kids), prefix, entries)

make_files_btree(fst) == fill_files_btree(EmptyMap, 1, "", fst.entries)

\* Game::make_sections_btree, once the header and the FST are decoded.
make_sections_btree(header, fst) ==
    BTreeInsert(
      BTreeInsert(
        BTreeInsert(
          BTreeInsert(make_files_btree(fst), 0, HEADER_PATH),
          APPLOADER_OFFSET, APPLOADER_PATH),
        header.fst_offset, FST_PATH),
      header.dol_offset, DOL_PATH)

\* ------------------------------------------------------------ write_zeros
\* The lengths of the write_all calls of write_zeros(count, output).
write_zeros(count) ==
    [i \in 1 .. ((count \div WRITE_CHUNK_SIZE) + 1) |->
        Min(WRITE_CHUNK_SIZE, count - WRITE_CHUNK_SIZE * (i - 1))]

\* u64 / usize subtraction a - b: a panic with overflow checks, the
\* wrapped difference without.
SubOverflows(a, b) == a < b
WrappingSub(a, b) == (a - b) % U64_MOD

\* ---------------------------------------------- name-addressed extraction
\* Segment::parse_segment_name: a segment type and a number.
SegmentName(kind, num) == "." \o kind \o ToString(num)
SegmentNames == {SegmentName(k, n) : k \in {"text", "data"}, n \in 0 .. 1}
parse_segment_name(filename) ==
    IF filename \in SegmentNames
        THEN CHOOSE t \in [kind : {"text", "data"}, num : 0 .. 1] :
                 SegmentName(t.kind, t.num) = filename
        ELSE None

\* DOLHeader::find_segment
find_segment(dol, kind, num) ==
    LET segs == IF kind = "text" THEN dol.text_segments ELSE dol.data_segments
    IN  IF num + 1 \in DOMAIN segs THEN segs[num + 1] ELSE None

\* FST::entry_with_name: the entry whose full path is the name.
entry_with_name(fst, filename) ==
    LET hits == {i \in DOMAIN FullPaths(fst) : FullPaths(fst)[i][2] = filename}
    IN  IF hits = {} THEN None ELSE fst.entries[FullPaths(fst)[MinOf(hits)][1]]

\* The names extract_section_with_name is called with.
FileNames(g) ==
    SystemPaths \cup SegmentNames \cup {"nosuch"}
    \cup {FullPaths(g.fst)[i][2] : i \in DOMAIN FullPaths(g.fst)}

\* A path of the file system: absent, a file with its bytes, or a directory.
Absent == [exists |-> FALSE, is_dir |-> FALSE, bytes |-> <<>>]
FileOf(b) == [exists |-> TRUE, is_dir |-> FALSE, bytes |-> b]
DirNode == [exists |-> TRUE, is_dir |-> TRUE, bytes |-> <<>>]

\* Entry::extract_with_name: a file entry is written to the output path,
\* a directory entry is created there (and fails on an existing path).
extract_with_name(g, e, out) ==
    IF e.is_dir
        THEN IF out.exists THEN [result |-> "Err", out |-> out]
                           ELSE [result |-> "Ok(true)", out |-> DirNode]
        ELSE [result |-> "Ok(true)",
              out |-> FileOf(Slice(g, e.file_offset, e.length))]

\* The same arm with File::create(output) hoisted above the segment lookup.
extract_segment_create_first(g, filename, out) ==
    IF parse_segment_name(filename) # None THEN
        LET t == parse_segment_name(filename)
            s == find_segment(g.dol, t.kind, t.num)
        IN  IF s # None
                THEN [result |-> "Ok(true)", out |-> FileOf(Slice(g, s.start, s.size))]
                ELSE [result |-> "Ok(false)", out |-> FileOf(<<>>)]
    ELSE [result |-> "Ok(false)", out |-> out]

\* extract_section_with_name, the arm of a name that is no system name and
\* no FST path: a segment name of an existing segment, or nothing.
extract_segment_with_name(g, filename, out) ==
    IF parse_segment_name(filename) # None THEN
        LET t == parse_segment_name(filename)
            s == find_segment(g.dol, t.kind, t.num)
        IN  IF s # None
                THEN [result |-> "Ok(true)", out |-> FileOf(Slice(g, s.start, s.size))]
                ELSE [result |-> "Ok(false)", out |-> out]
    ELSE [result |-> "Ok(false)", out |-> out]

\* Game::extract_section_with_name: the result, and the output path after
\* the call (File::create truncates an existing file).
extract_section_with_name(g, filename, out) ==
    IF filename = HEADER_PATH THEN
        [result |-> "Ok(true)", out |-> FileOf(Slice(g, 0, GAME_HEADER_SIZE))]
    ELSE IF filename = APPLOADER_PATH THEN
        [result |-> "Ok(true)",
         out |-> FileOf(Slice(g, APPLOADER_OFFSET, g.apploader.total_size))]
    ELSE IF filename = DOL_PATH THEN
        [result |-> "Ok(true)",
         out |-> FileOf(Slice(g, g.dol.offset, g.dol.dol_size))]
    ELSE IF filename = FST_PATH THEN
        [result |-> "Ok(true)", out |-> FileOf(Slice(g, g.fst.offset, g.fst.size))]
    ELSE IF entry_with_name(g.fst, filename) # None THEN
        extract_with_name(g, entry_with_name(g.fst, filename), out)
    ELSE extract_segment_with_name(g, filename, out)

\* ----------------------------------------------------------- Game::extract
\* std::fs::create_dir_all: an existing directory is no error.
create_dir_all(path_exists) == "Ok"

\* std::fs::create_dir: fails if the path already exists.
create_dir(path_exists) == IF path_exists THEN "Err" ELSE "Ok"

\* What a destination that already exists holds.
OldFiles == ("old.bin" :> <<9>>)

NotDecoded == [ok |-> FALSE]
Decoded(v) == [ok |-> TRUE, value |-> v]

\* FST::extract_filesystem: the tree of the FST mirrored under the root.
ExtractedDirs(g) ==
    {FullPaths(g.fst)[i][2] :
        i \in {k \in DOMAIN FullPaths(g.fst) :
                  g.fst.entries[FullPaths(g.fst)[k][1]].is_dir}}

ExtractedFiles(g) ==
    LET walk == FullPaths(g.fst)
        fileAt == {k \in DOMAIN walk : ~g.fst.entries[walk[k][1]].is_dir}
    IN  [p \in {walk[k][2] : k \in fileAt} |->
            LET k == CHOOSE k \in fileAt : walk[k][2] = p
                e == g.fst.entries[walk[k][1]]
            IN  Slice(g, e.file_offset, e.length)]

\* -------------------------------------------- Game::rebuild_systemdata
\* FST::rebuild: the table recomputed from the tree on storage: the
\* entries of the tree, each file with its length on storage.
RebuiltFST(fst, disk) ==
    LET walk == FullPaths(fst)
        pathOf(i) == walk[CHOOSE k \in DOMAIN walk : walk[k][1] = i][2]
    IN  [fst EXCEPT !.entries =
            [i \in DOMAIN fst.entries |->
                IF fst.entries[i].is_dir \/ i = 1 THEN fst.entries[i]
                ELSE [fst.entries[i] EXCEPT !.length = Len(disk[pathOf(i)])]]]

\* FST::write / Header::write: the bytes of a structure; those of the
\* structures the image was opened with are the image's own.
TocBytes(g, f) ==
    IF f = g.fst THEN Slice(g, g.fst.offset, g.fst.size)
    ELSE [i \in 1 .. f.size |-> 255]
HeaderBytes(g, h) ==
    IF h = g.header THEN Slice(g, 0, GAME_HEADER_SIZE)
    ELSE [i \in 1 .. GAME_HEADER_SIZE |-> 255]

\* Game::rebuild without the call of rebuild_systemdata.
rebuild_skips_systemdata(rf) == "btree"

\* Game::rebuild: the step after `let mut bytes_written = 0`.
\* The number of write_all calls of write_zeros(count, output).
write_zeros_iterations(count) == Len(write_zeros(count))

\* The end of the slice &zeros[..n] of iteration i (counted from 0).
write_zeros_slice(count, i) == write_zeros(count)[i + 1]

\* block_size, the length the shared buffer is resized to.
block_size(count) == Min(count, WRITE_CHUNK_SIZE)

\* Vec::resize(new_len, 0): truncates, or extends with zeros.
resize(v, new_len) ==
    [k \in 1 .. new_len |-> IF k <= Len(v) THEN v[k] ELSE 0]

\* The counts write_zeros is called with: 0, values below the chunk size,
\* exact multiples of it, and values in between.
Counts == 0 .. (2 * WRITE_CHUNK_SIZE + 1)
Threads == 1 .. NThreads

rebuild_first_step(rf) == IF rf THEN "sd_fst" ELSE "btree"

\* ------------------------------------------------------------------ state
VARIABLES
    game,             \* the decoded Game
    overflow_checks,  \* build profile: TRUE panics on integer overflow
    pc,               \* the operation in progress and its position
    layout,           \* the ROMLayout returned by rom_layout
    query,            \* the offset passed to find_offset
    found,            \* the result of find_offset
    root_exists,      \* the extraction root directory exists
    dirs,             \* directories below the root (relative paths)
    files,            \* files below the root: relative path -> bytes
    hdr_on_disk,      \* what Header::new decodes from ISO.hdr
    toc_on_disk,      \* what FST::new decodes from Game.toc
    edited,           \* the tree was edited after the extraction
    rebuild_files,    \* Game::rebuild's rebuild_files argument
    snapshot,         \* files when Game::rebuild was called
    sd_log,           \* the writes of rebuild_systemdata, in order
    tree,             \* the offset -> path map of rebuild
    it,               \* entries of the map already streamed
    bytes_written,    \* rebuild's write cursor
    output,           \* the bytes written to rebuild's output
    entry_log,        \* per streamed entry: offset, cursor, padding, position
    final_pad,        \* the trailing write_zeros of rebuild
    sect_name,        \* the name passed to extract_section_with_name
    sect_result,      \* its result
    out_before,       \* the output path before the call
    out_file,         \* the output path
    ZEROS,            \* the shared buffer of write_zeros
    zeros_mutex,      \* its Mutex: the owning call (0: none), poisoned
    call_pc,          \* per call of write_zeros: its position
    call_count,       \* per call: the count argument
    call_i,           \* per call: the loop index i
    call_output       \* per call: the slices written to its output, in order

layoutVars == <<layout, query, found>>
diskVars == <<root_exists, dirs, files, hdr_on_disk, toc_on_disk, edited>>
rebuildVars == <<rebuild_files, snapshot, sd_log, tree, it, bytes_written,
                 output, entry_log, final_pad>>
nameVars == <<sect_name, sect_result, out_before, out_file>>
zeroVars == <<ZEROS, zeros_mutex, call_pc, call_count, call_i, call_output>>
vars == <<game, overflow_checks, pc, layoutVars, diskVars, rebuildVars, nameVars,
          zeroVars>>

Unlocked == [owner |-> 0, poisoned |-> FALSE]

NoPad == [written |-> FALSE, cursor |-> 0, count |-> 0]

Init ==
    /\ game \in Games
    /\ overflow_checks \in BOOLEAN
    /\ pc = "idle"
    /\ layout = <<>>
    /\ query = 0
    /\ found = None
    /\ root_exists = FALSE
    /\ dirs = {}
    /\ files = EmptyMap
    /\ hdr_on_disk = NotDecoded
    /\ toc_on_disk = NotDecoded
    /\ edited = FALSE
    /\ rebuild_files = FALSE
    /\ snapshot = EmptyMap
    /\ sd_log = <<>>
    /\ tree = EmptyMap
    /\ it = 0
    /\ bytes_written = 0
    /\ output = <<>>
    /\ entry_log = <<>>
    /\ final_pad = NoPad
    /\ sect_name = ""
    /\ sect_result = ""
    /\ out_before = Absent
    /\ out_file = Absent
    /\ ZEROS = <<>>
    /\ zeros_mutex = Unlocked
    /\ call_pc = [t \in Threads |-> "call"]
    /\ call_count = [t \in Threads |-> 0]
    /\ call_i = [t \in Threads |-> 0]
    /\ call_output = [t \in Threads |-> <<>>]

\* ---------------------------------------------------------- layout actions
RomLayout ==
    /\ pc = "idle"
    /\ layout' \in rom_layout(game)
    /\ pc' = "layout"
    /\ UNCHANGED <<zeroVars, game, overflow_checks, query, found, diskVars, rebuildVars,
                   nameVars>>

FindOffset ==
    /\ pc = "layout"
    /\ \E o \in 0 .. ROM_SIZE :
        /\ query' = o
        /\ found' = find_offset(layout, o, overflow_checks)
    /\ pc' = "found"
    /\ UNCHANGED <<zeroVars, game, overflow_checks, layout, diskVars, rebuildVars, nameVars>>

\* -------------------------------------------- name-addressed extraction
\* Environment: the output path holds a file before the call.
CreateOutputFile ==
    /\ pc = "idle"
    /\ out_file' = FileOf(<<9>>)
    /\ pc' = "out_exists"
    /\ UNCHANGED <<zeroVars, game, overflow_checks, layoutVars, diskVars, rebuildVars,
                   sect_name, sect_result, out_before>>

ExtractSectionWithName ==
    /\ pc \in {"idle", "out_exists"}
    /\ \E name \in FileNames(game) :
        LET r == extract_section_with_name(game, name, out_file) IN
        /\ sect_name' = name
        /\ sect_result' = r.result
        /\ out_file' = r.out
    /\ out_before' = out_file
    /\ pc' = "named"
    /\ UNCHANGED <<zeroVars, game, overflow_checks, layoutVars, diskVars, rebuildVars>>

\* ------------------------------------------------------------ Game::extract
\* Environment: the destination path exists before the call.
PrepareDestination ==
    /\ pc = "idle"
    /\ root_exists' = TRUE
    /\ files' = OldFiles
    /\ pc' = "dest_exists"
    /\ UNCHANGED <<zeroVars, game, overflow_checks, layoutVars, dirs, hdr_on_disk,
                   toc_on_disk, edited, rebuildVars, nameVars>>

ExtractCreateDir ==
    /\ pc \in {"idle", "dest_exists"}
    /\ IF create_dir(root_exists) = "Err"
          THEN pc' = "extract_err" /\ UNCHANGED root_exists
          ELSE pc' = "ex_sys" /\ root_exists' = TRUE
    /\ UNCHANGED <<zeroVars, game, overflow_checks, layoutVars, dirs, files, hdr_on_disk,
                   toc_on_disk, edited, rebuildVars, nameVars>>

ExtractCreateSysDir ==
    /\ pc = "ex_sys"
    /\ IF create_dir(SYSTEMDATA \in dirs) = "Err"
          THEN pc' = "extract_err" /\ UNCHANGED dirs
          ELSE pc' = "ex_hdr" /\ dirs' = dirs \cup {SYSTEMDATA}
    /\ UNCHANGED <<zeroVars, game, overflow_checks, layoutVars, root_exists, files,
                   hdr_on_disk, toc_on_disk, edited, rebuildVars, nameVars>>

ExtractGameHeader ==
    /\ pc = "ex_hdr"
    /\ files' = BTreeInsert(files, HEADER_PATH, Slice(game, 0, GAME_HEADER_SIZE))
    /\ hdr_on_disk' = Decoded(game.header)
    /\ pc' = "ex_fst"
    /\ UNCHANGED <<zeroVars, game, overflow_checks, layoutVars, root_exists, dirs,
                   toc_on_disk, edited, rebuildVars, nameVars>>

ExtractFst ==
    /\ pc = "ex_fst"
    /\ files' = BTreeInsert(files, FST_PATH,
                            Slice(game, game.header.fst_offset, game.fst.size))
    /\ toc_on_disk' = Decoded(game.fst)
    /\ pc' = "ex_app"
    /\ UNCHANGED <<zeroVars, game, overflow_checks, layoutVars, root_exists, dirs,
                   hdr_on_disk, edited, rebuildVars, nameVars>>

ExtractApploader ==
    /\ pc = "ex_app"
    /\ files' = BTreeInsert(files, APPLOADER_PATH,
                   Slice(game, APPLOADER_OFFSET, game.apploader.total_size))
    /\ pc' = "ex_dol"
    /\ UNCHANGED <<zeroVars, game, overflow_checks, layoutVars, root_exists, dirs,
                   hdr_on_disk, toc_on_disk, edited, rebuildVars, nameVars>>

ExtractDol ==
    /\ pc = "ex_dol"
    /\ files' = BTreeInsert(files, DOL_PATH,
                   Slice(game, game.header.dol_offset, game.dol.dol_size))
    /\ pc' = "ex_files"
    /\ UNCHANGED <<zeroVars, game, overflow_checks, layoutVars, root_exists, dirs,
                   hdr_on_disk, toc_on_disk, edited, rebuildVars, nameVars>>

ExtractFiles ==
    /\ pc = "ex_files"
    /\ dirs' = dirs \cup ExtractedDirs(game)
    /\ files' = [p \in (DOMAIN files) \cup (DOMAIN ExtractedFiles(game)) |->
                    IF p \in DOMAIN ExtractedFiles(game)
                        THEN ExtractedFiles(game)[p] ELSE files[p]]
    /\ pc' = "extracted"
    /\ UNCHANGED <<zeroVars, game, overflow_checks, layoutVars, root_exists,
                   hdr_on_disk, toc_on_disk, edited, rebuildVars, nameVars>>

\* Environment: between extraction and rebuild a file of the tree grows ...
GrowFile ==
    /\ pc = "extracted"
    /\ ~edited
    /\ \E p \in (DOMAIN files) \ SystemPaths :
          files' = [files EXCEPT ![p] = Append(@, 77)]
    /\ edited' = TRUE
    /\ UNCHANGED <<zeroVars, game, overflow_checks, pc, layoutVars, root_exists, dirs,
                   hdr_on_disk, toc_on_disk, rebuildVars, nameVars>>

\* ... or a system-data file is removed.
RemoveFile ==
    /\ pc = "extracted"
    /\ ~edited
    /\ \E p \in SystemPaths :
          /\ files' = [q \in (DOMAIN files) \ {p} |-> files[q]]
          /\ hdr_on_disk' = IF p = HEADER_PATH THEN NotDecoded ELSE hdr_on_disk
          /\ toc_on_disk' = IF p = FST_PATH THEN NotDecoded ELSE toc_on_disk
    /\ edited' = TRUE
    /\ UNCHANGED <<zeroVars, game, overflow_checks, pc, layoutVars, root_exists, dirs,
                   rebuildVars, nameVars>>

\* ------------------------------------------------------------ Game::rebuild
RebuildBegin ==
    /\ pc = "extracted"
    /\ \E rf \in BOOLEAN :
        /\ rebuild_files' = rf
        /\ pc' = rebuild_first_step(rf)
    /\ bytes_written' = 0
    /\ snapshot' = files
    /\ UNCHANGED <<zeroVars, game, overflow_checks, layoutVars, diskVars, sd_log, tree, it,
                   output, entry_log, final_pad, nameVars>>

\* rebuild_systemdata, first half: File::create truncates Game.toc, then
\* FST::rebuild(root)?.write(..)? either fails (it needs Apploader.ldr and
\* Start.dol, and reads the tree) or writes the recomputed table.
SdRebuildFst ==
    /\ pc = "sd_fst"
    /\ \/ /\ files' = BTreeInsert(files, FST_PATH, <<>>)
          /\ toc_on_disk' = NotDecoded
          /\ sd_log' = Append(sd_log, "toc_truncated")
          /\ pc' = "rebuild_err"
       \/ /\ {APPLOADER_PATH, DOL_PATH} \subseteq DOMAIN files
          /\ LET new == RebuiltFST(game.fst, files) IN
             /\ files' = BTreeInsert(files, FST_PATH, TocBytes(game, new))
             /\ toc_on_disk' = Decoded(new)
          /\ sd_log' = sd_log \o <<"toc_truncated", "toc_written">>
          /\ pc' = "sd_hdr"
    /\ UNCHANGED <<zeroVars, game, overflow_checks, layoutVars, root_exists, dirs,
                   hdr_on_disk, edited, rebuild_files, snapshot, tree, it,
                   bytes_written, output, entry_log, final_pad, nameVars>>

\* rebuild_systemdata, second half: Header::rebuild(root)? (it reads the
\* old header), then ISO.hdr is created and written.
SdRebuildHeader ==
    /\ pc = "sd_hdr"
    /\ \/ /\ pc' = "rebuild_err"
          /\ UNCHANGED <<files, hdr_on_disk, sd_log>>
       \/ /\ hdr_on_disk.ok
          /\ LET h == [fst_offset |-> toc_on_disk.value.offset,
                       dol_offset |-> hdr_on_disk.value.dol_offset] IN
             /\ files' = BTreeInsert(files, HEADER_PATH, HeaderBytes(game, h))
             /\ hdr_on_disk' = Decoded(h)
          /\ sd_log' = Append(sd_log, "hdr_written")
          /\ pc' = "btree"
    /\ UNCHANGED <<zeroVars, game, overflow_checks, layoutVars, root_exists, dirs,
                   toc_on_disk, edited, rebuild_files, snapshot, tree, it,
                   bytes_written, output, entry_log, final_pad, nameVars>>

MakeSectionsBtree ==
    /\ pc = "btree"
    /\ IF /\ HEADER_PATH \in DOMAIN files /\ hdr_on_disk.ok
          /\ FST_PATH \in DOMAIN files /\ toc_on_disk.ok
          THEN /\ tree' = make_sections_btree(hdr_on_disk.value, toc_on_disk.value)
               /\ sd_log' = Append(sd_log, "map_built")
               /\ pc' = "loop"
          ELSE /\ pc' = "rebuild_err"
               /\ UNCHANGED <<tree, sd_log>>
    /\ UNCHANGED <<zeroVars, game, overflow_checks, layoutVars, diskVars, rebuild_files,
                   snapshot, it, bytes_written, output, entry_log, final_pad,
                   nameVars>>

\* One iteration of the loop over the map: padding, then the file.
RebuildEntry ==
    /\ pc = "loop"
    /\ it < Cardinality(DOMAIN tree)
    /\ LET offset == SortedKeys(DOMAIN tree)[it + 1]
           filename == tree[offset]
       IN
       IF SubOverflows(offset, bytes_written) /\ overflow_checks
       THEN /\ pc' = "rebuild_panic"
            /\ UNCHANGED <<it, bytes_written, output, entry_log>>
       ELSE LET count == WrappingSub(offset, bytes_written)
                padded == output \o Zeros(SumSeq(write_zeros(count)))
                opened == filename \in DOMAIN files
                size == IF opened THEN Len(files[filename]) ELSE 0
            IN
            /\ output' = IF opened THEN padded \o files[filename] ELSE padded
            /\ bytes_written' = offset + size
            /\ entry_log' = Append(entry_log,
                   [offset |-> offset, cursor |-> bytes_written,
                    count |-> count, pos |-> Len(padded),
                    size |-> size, opened |-> opened])
            /\ IF opened THEN it' = it + 1 /\ pc' = "loop"
                         ELSE it' = it /\ pc' = "rebuild_err"
    /\ UNCHANGED <<zeroVars, game, overflow_checks, layoutVars, diskVars, rebuild_files,
                   snapshot, sd_log, tree, final_pad, nameVars>>

\* write_zeros(ROM_SIZE - bytes_written as usize, &mut output)
RebuildFinish ==
    /\ pc = "loop"
    /\ it = Cardinality(DOMAIN tree)
    /\ IF SubOverflows(ROM_SIZE, bytes_written) /\ overflow_checks
       THEN /\ pc' = "rebuild_panic"
            /\ UNCHANGED <<output, final_pad>>
       ELSE LET count == WrappingSub(ROM_SIZE, bytes_written) IN
            /\ output' = output \o Zeros(SumSeq(write_zeros(count)))
            /\ final_pad' = [written |-> TRUE, cursor |-> bytes_written,
                             count |-> count]
            /\ pc' = "rebuild_ok"
    /\ UNCHANGED <<zeroVars, game, overflow_checks, layoutVars, diskVars, rebuild_files,
                   snapshot, sd_log, tree, it, bytes_written, entry_log, nameVars>>

Next ==
    \/ RomLayout
    \/ FindOffset
    \/ CreateOutputFile
    \/ ExtractSectionWithName
    \/ PrepareDestination
    \/ ExtractCreateDir
    \/ ExtractCreateSysDir
    \/ ExtractGameHeader
    \/ ExtractFst
    \/ ExtractApploader
    \/ ExtractDol
    \/ ExtractFiles
    \/ GrowFile
    \/ RemoveFile
    \/ RebuildBegin
    \/ SdRebuildFst
    \/ SdRebuildHeader
    \/ MakeSectionsBtree
    \/ RebuildEntry
    \/ RebuildFinish

Spec == Init /\ [][Next]_vars

\* ------------------------------------------- write_zeros, concurrent calls
\* Several threads call write_zeros, each on an output of its own; ZEROS is
\* empty, as lazy_static builds it.
ZInit ==
    /\ game = CHOOSE g \in Games : TRUE
    /\ overflow_checks \in BOOLEAN
    /\ pc = "idle"
    /\ layout = <<>>
    /\ query = 0
    /\ found = None
    /\ root_exists = FALSE
    /\ dirs = {}
    /\ files = EmptyMap
    /\ hdr_on_disk = NotDecoded
    /\ toc_on_disk = NotDecoded
    /\ edited = FALSE
    /\ rebuild_files = FALSE
    /\ snapshot = EmptyMap
    /\ sd_log = <<>>
    /\ tree = EmptyMap
    /\ it = 0
    /\ bytes_written = 0
    /\ output = <<>>
    /\ entry_log = <<>>
    /\ final_pad = NoPad
    /\ sect_name = ""
    /\ sect_result = ""
    /\ out_before = Absent
    /\ out_file = Absent
    /\ ZEROS = <<>>
    /\ zeros_mutex = Unlocked
    /\ call_pc = [t \in Threads |-> "call"]
    /\ call_count \in [Threads -> Counts]
    /\ call_i = [t \in Threads |-> 0]
    /\ call_output = [t \in Threads |-> <<>>]

gameVars == <<game, overflow_checks, pc, layoutVars, diskVars, rebuildVars,
              nameVars>>

\* A call that leaves write_zeros drops its MutexGuard; a panicking one
\* poisons the Mutex.
Release(panicked) == [owner |-> 0, poisoned |-> zeros_mutex.poisoned \/ panicked]

\* The same entry without the Mutex: the call goes on to the buffer at once.
ZLockNoMutex(t) ==
    /\ call_pc[t] = "call"
    /\ call_pc' = [call_pc EXCEPT ![t] = "locked"]
    /\ UNCHANGED <<gameVars, ZEROS, zeros_mutex, call_count, call_i, call_output>>

\* ZEROS.lock().unwrap(): blocks while another call owns the Mutex, panics
\* if it is poisoned.
ZLock(t) ==
    /\ call_pc[t] = "call"
    /\ zeros_mutex.owner = 0
    /\ IF zeros_mutex.poisoned
          THEN /\ call_pc' = [call_pc EXCEPT ![t] = "panic"]
               /\ UNCHANGED zeros_mutex
          ELSE /\ call_pc' = [call_pc EXCEPT ![t] = "locked"]
               /\ zeros_mutex' = [zeros_mutex EXCEPT !.owner = t]
    /\ UNCHANGED <<gameVars, ZEROS, call_count, call_i, call_output>>

\* zeros.resize(block_size, 0), and the loop starts.
ZResize(t) ==
    /\ call_pc[t] = "locked"
    /\ ZEROS' = resize(ZEROS, block_size(call_count[t]))
    /\ call_i' = [call_i EXCEPT ![t] = 0]
    /\ call_pc' = [call_pc EXCEPT ![t] = "loop"]
    /\ UNCHANGED <<gameVars, zeros_mutex, call_count, call_output>>

\* One iteration: write_all(&zeros[..n])?. A slice beyond the buffer's
\* length panics; write_all of a non-empty slice may fail, and the error is
\* returned.
ZWrite(t) ==
    /\ call_pc[t] = "loop"
    /\ call_i[t] < write_zeros_iterations(call_count[t])
    /\ LET n == write_zeros_slice(call_count[t], call_i[t]) IN
       IF n > Len(ZEROS)
          THEN /\ call_pc' = [call_pc EXCEPT ![t] = "panic"]
               /\ zeros_mutex' = Release(TRUE)
               /\ UNCHANGED <<call_i, call_output>>
          ELSE \/ /\ call_output' =
                        [call_output EXCEPT ![t] = Append(@, SubSeq(ZEROS, 1, n))]
                  /\ call_i' = [call_i EXCEPT ![t] = @ + 1]
                  /\ UNCHANGED <<call_pc, zeros_mutex>>
               \/ /\ n > 0
                  /\ call_pc' = [call_pc EXCEPT ![t] = "err"]
                  /\ zeros_mutex' = Release(FALSE)
                  /\ UNCHANGED <<call_i, call_output>>
    /\ UNCHANGED <<gameVars, ZEROS, call_count>>

\* The loop is over: Ok(()), and the guard is dropped.
ZReturn(t) ==
    /\ call_pc[t] = "loop"
    /\ call_i[t] = write_zeros_iterations(call_count[t])
    /\ call_pc' = [call_pc EXCEPT ![t] = "ok"]
    /\ zeros_mutex' = Release(FALSE)
    /\ UNCHANGED <<gameVars, ZEROS, call_count, call_i, call_output>>

ZNext ==
    \/ \E t \in Threads : ZLock(t)
    \/ \E t \in Threads : ZResize(t)
    \/ \E t \in Threads : ZWrite(t)
    \/ \E t \in Threads : ZReturn(t)

SpecZeros == ZInit /\ [][ZNext]_vars
\* ================================================================== claims
InRegion(s, o) == s.start <= o /\ o <= s.start + s.len - 1

\* A layout of non-empty, pairwise disjoint regions: each offset lies in at
\* most one region.
DisjointLayout(l) ==
    /\ \A i \in DOMAIN l : l[i].len > 0
    /\ \A i \in DOMAIN l : \A j \in DOMAIN l :
          i # j => (l[i].start + l[i].len <= l[j].start
                    \/ l[j].start + l[j].len <= l[i].start)

\* C1: find_offset(o) returns the region of the layout that contains o,
\* whatever its position in the list, and None for an offset before the
\* first region or in a gap between two regions (stated for layouts of
\* non-empty, pairwise disjoint regions).
C1_FindOffsetReturnsContainingRegion ==
    (pc = "found" /\ DisjointLayout(layout)) =>
        /\ \A i \in DOMAIN layout :
              InRegion(layout[i], query) => found = layout[i]
        /\ ((\A i \in DOMAIN layout : ~InRegion(layout[i], query))
              /\ (\E j \in DOMAIN layout : query < layout[j].start))
            => found = None

\* The regions rom_layout is to return.
ExpectedSections(g) ==
    {HeaderSection(g), ApploaderSection(g), DOLHeaderSection(g), FSTSection(g)}
    \cup {SegmentSection(s) :
            s \in {x \in Range(g.dol.text_segments) \cup Range(g.dol.data_segments) :
                      x.size # 0}}
    \cup {FileSection(g, i) :
            i \in {j \in DOMAIN g.fst.entries : ~g.fst.entries[j].is_dir}}

\* C6: the layout holds exactly the header, the apploader, the DOL header,
\* the FST, every segment of size other than 0 and every file entry of the
\* FST, each once, ordered by start ascending.
C6_LayoutContentsAndOrder ==
    pc \in {"layout", "found"} =>
        /\ \A i \in DOMAIN layout : layout[i] \in ExpectedSections(game)
        /\ \A r \in ExpectedSections(game) :
              Cardinality({i \in DOMAIN layout : layout[i] = r}) = 1
        /\ \A i \in 1 .. (Len(layout) - 1) : layout[i].start <= layout[i + 1].start

\* C6 witness: a layout of an image with an unused segment, a used one and
\* two files of equal start.
C6_Witness ==
    /\ pc = "layout"
    /\ \E s \in Range(iter_segments(game.dol)) : s.size = 0
    /\ \E s \in Range(iter_segments(game.dol)) : s.size # 0
    /\ \E i \in DOMAIN layout : \E j \in DOMAIN layout :
          /\ i < j
          /\ layout[i].kind = "File" /\ layout[j].kind = "File"
          /\ layout[i].start = layout[j].start

\* C7: every region placed in the layout has length > 0.
C7_LayoutRegionsNonEmpty ==
    pc \in {"layout", "found"} => \A i \in DOMAIN layout : layout[i].len > 0
\* An image is well formed when the byte ranges of its header, apploader,
\* executable, FST and files lie inside the image and are pairwise
\* disjoint (an empty file occupies no byte).
OccupiedRanges(g) ==
    {<<"hdr", 0, GAME_HEADER_SIZE>>,
     <<"app", APPLOADER_OFFSET, g.apploader.total_size>>,
     <<"dol", g.dol.offset, g.dol.dol_size>>,
     <<"fst", g.fst.offset, g.fst.size>>}
    \cup {<<g.fst.entries[i].name, g.fst.entries[i].file_offset,
            g.fst.entries[i].length>> : i \in FileIndices(g.fst)}

WellFormedImage(g) ==
    /\ \A r \in OccupiedRanges(g) : r[2] + r[3] <= ROM_SIZE
    /\ \A r \in OccupiedRanges(g) : \A q \in OccupiedRanges(g) :
          (r # q /\ r[3] > 0 /\ q[3] > 0)
              => (r[2] + r[3] <= q[2] \/ q[2] + q[3] <= r[2])

RebuildEnded == pc \in {"rebuild_ok", "rebuild_err", "rebuild_panic"}

\* C2: extract of a well-formed image into a fresh directory, then rebuild
\* of that directory, produces the image byte for byte.
C2_RoundTrip ==
    (RebuildEnded /\ ~edited /\ ~rebuild_files /\ WellFormedImage(game)) =>
        /\ pc = "rebuild_ok"
        /\ output = [i \in 1 .. ROM_SIZE |-> Image(game)[i - 1]]

\* C3: rebuild streams the entries in ascending offset order, zero-fills
\* exactly offset - cursor bytes before each entry (cursor: the previous
\* offset plus the size of the previous file) and ROM_SIZE - cursor bytes
\* after the last, so each entry's content starts at its offset and a
\* successful rebuild has written exactly ROM_SIZE bytes.
C3_ExactPadding ==
    /\ \A k \in DOMAIN entry_log :
          /\ entry_log[k].count = entry_log[k].offset - entry_log[k].cursor
          /\ entry_log[k].pos = entry_log[k].offset
          /\ k > 1 => /\ entry_log[k - 1].offset < entry_log[k].offset
                      /\ entry_log[k].cursor =
                            entry_log[k - 1].offset + entry_log[k - 1].size
    /\ final_pad.written => final_pad.count = ROM_SIZE - final_pad.cursor
    /\ pc = "rebuild_ok" => Len(output) = ROM_SIZE

\* C4: rebuild aborts on an entry whose offset is below the write cursor,
\* and on a final cursor beyond ROM_SIZE: it writes neither a padding run
\* nor the entry's content for it, and does not return Ok.
C4_OverlapAborts ==
    /\ \A k \in DOMAIN entry_log : entry_log[k].offset >= entry_log[k].cursor
    /\ final_pad.written => final_pad.cursor <= ROM_SIZE
    /\ pc = "rebuild_ok" => bytes_written <= ROM_SIZE

MapBuilt == Len(sd_log) > 0 /\ sd_log[Len(sd_log)] = "map_built"

\* C5: the offset -> path map holds the four system-data files at their
\* offsets and one entry for every file entry of the FST: 4 + (number of
\* file entries) entries, no file dropped.
C5_MapHoldsEveryFile ==
    MapBuilt =>
        LET fst == toc_on_disk.value
            hdr == hdr_on_disk.value
            walk == FullPaths(fst)
        IN
        /\ Cardinality(DOMAIN tree) = 4 + Cardinality(FileIndices(fst))
        /\ tree[0] = HEADER_PATH
        /\ tree[APPLOADER_OFFSET] = APPLOADER_PATH
        /\ tree[hdr.fst_offset] = FST_PATH
        /\ tree[hdr.dol_offset] = DOL_PATH
        /\ \A k \in DOMAIN walk :
              ~fst.entries[walk[k][1]].is_dir
                  => \E o \in DOMAIN tree : tree[o] = walk[k][2]

\* A name that resolves to nothing: no system name, no full path of an FST
\* entry, and no name of a segment the DOL has.
Unresolved(g, name) ==
    /\ name \notin {"&&systemdata/ISO.hdr", "&&systemdata/Apploader.ldr",
                    "&&systemdata/Start.dol", "&&systemdata/Game.toc"}
    /\ \A k \in DOMAIN FullPaths(g.fst) : FullPaths(g.fst)[k][2] # name
    /\ \A s \in Range(g.dol.text_segments) \cup Range(g.dol.data_segments) :
          SegmentName(s.kind, s.num) # name

\* C8: extract_section_with_name with a name that resolves to nothing
\* returns Ok(false) and neither creates nor modifies the output file.
C8_UnresolvedNameIsNotFound ==
    (pc = "named" /\ Unresolved(game, sect_name)) =>
        /\ sect_result = "Ok(false)"
        /\ out_file = out_before

\* C8 witness: a segment name of a segment the DOL does not have, with an
\* output file in place before the call.
C8_Witness ==
    /\ pc = "named"
    /\ Unresolved(game, sect_name)
    /\ sect_name \in SegmentNames
    /\ out_before.exists
    /\ sect_result = "Ok(false)"

\* C9: extract into a destination that already exists fails before any
\* directory or file is created: the destination keeps its content, and
\* no &&systemdata directory or file appears.
C9_ExistingDestinationUntouched ==
    ("old.bin" \in DOMAIN files) =>
        /\ pc \in {"dest_exists", "extract_err"}
        /\ files = OldFiles
        /\ dirs = {}
        /\ ~hdr_on_disk.ok /\ ~toc_on_disk.ok

\* C9 witness: extract has returned its error on an existing destination.
C9_Witness ==
    /\ pc = "extract_err"
    /\ root_exists
    /\ files = OldFiles

IsPrefix(s, t) == Len(s) <= Len(t) /\ \A i \in DOMAIN s : s[i] = t[i]

\* C10: with rebuild_files, Game.toc is written completely, then ISO.hdr,
\* and only then the map is built and output written; ISO.hdr is not
\* written after a failed FST step; without rebuild_files neither file is
\* written.
C10_SystemdataOrder ==
    (pc \in {"sd_fst", "sd_hdr", "btree", "loop"} \/ RebuildEnded) =>
        /\ rebuild_files =>
              /\ IsPrefix(sd_log, <<"toc_truncated", "toc_written",
                                    "hdr_written", "map_built">>)
              /\ pc = "sd_hdr" => sd_log = <<"toc_truncated", "toc_written">>
              /\ pc = "btree" => Len(sd_log) = 3
        /\ ~rebuild_files =>
              /\ IsPrefix(sd_log, <<"map_built">>)
              /\ \A p \in {FST_PATH, HEADER_PATH} :
                    /\ p \in DOMAIN files <=> p \in DOMAIN snapshot
                    /\ p \in DOMAIN files => files[p] = snapshot[p]
        /\ (output # <<>> \/ tree # EmptyMap) => MapBuilt
        /\ ("hdr_written" \in Range(sd_log)) =>
              (HEADER_PATH \in DOMAIN files /\ hdr_on_disk.ok /\ toc_on_disk.ok)

\* C10 witness: a rebuild with rebuild_files that ran to its end.
C10_Witness ==
    /\ pc = "rebuild_ok"
    /\ rebuild_files
    /\ sd_log = <<"toc_truncated", "toc_written", "hdr_written", "map_built">>
    /\ output # <<>>
\* A name extract_section_with_name resolves in its own arms: one of the
\* four system names, or the name of a segment the executable has (and no
\* FST path).
ResolvesToSection(g, name) ==
    \/ name \in SystemPaths
    \/ /\ entry_with_name(g.fst, name) = None
       /\ parse_segment_name(name) # None
       /\ find_segment(g.dol, parse_segment_name(name).kind,
                       parse_segment_name(name).num) # None

\* C11: extract_section_with_name with a name that resolves and an output
\* path that already exists fails and leaves the existing file as it was
\* (stated for the system names and the segment names).
C11_NamedExtractionKeepsExistingFile ==
    (pc = "named" /\ out_before.exists /\ ResolvesToSection(game, sect_name)) =>
        /\ sect_result = "Err"
        /\ out_file = out_before
\* The bytes a call has written to its output, write after write.
RECURSIVE Written(_)
Written(ws) == IF ws = <<>> THEN <<>> ELSE Head(ws) \o Written(Tail(ws))

\* C12: a call of write_zeros that returns Ok has written exactly count
\* bytes, all 0, in writes of at most WRITE_CHUNK_SIZE bytes each, for every
\* count; with several calls running at once, a call holds the Mutex from
\* its resize to its last write, so the buffer keeps the length the call
\* gave it, and no slice of it is out of range.
C12_WriteZerosWritesCountZeros ==
    \A t \in Threads :
        /\ call_pc[t] = "ok" =>
              /\ Written(call_output[t]) = Zeros(call_count[t])
              /\ \A k \in DOMAIN call_output[t] :
                     Len(call_output[t][k]) <= WRITE_CHUNK_SIZE
        /\ call_pc[t] \in {"locked", "loop"} => zeros_mutex.owner = t
        /\ call_pc[t] = "loop" => ZEROS = Zeros(block_size(call_count[t]))
        /\ call_pc[t] # "panic"

\* Every call has returned Ok; one had an exact multiple of the chunk size
\* to write, another less than a chunk.
C12_Witness ==
    /\ \A t \in Threads : call_pc[t] = "ok"
    /\ \E t \in Threads : call_count[t] = 2 * WRITE_CHUNK_SIZE
    /\ \E t \in Threads : call_count[t] > 0 /\ call_count[t] < WRITE_CHUNK_SIZE
====
